---------------------------- MODULE Spec2Model ----------------------------
(***************************************************************************)
(* A model of the prerender gateway of server.js: the /render request      *)
(* handler, the host policy guard, the LRU/TTL render cache, the lazily    *)
(* launched shared browser and the render pipeline with its page cleanup.  *)
(*                                                                         *)
(* Text (URLs, host names, allow-list patterns, IP addresses) is a         *)
(* sequence of one-character strings, so that parsing, escaping, prefix    *)
(* tests and regular-expression matching are computed character by         *)
(* character as the code computes them.                                    *)
(***************************************************************************)
EXTENDS Integers, Sequences, FiniteSets, TLC

\* ------------------------------------------------------------------ text

DigitChars == <<"0","1","2","3","4","5","6","7","8","9">>
HexChars == <<"0","1","2","3","4","5","6","7","8","9","a","b","c","d","e","f">>
UpperChars == <<"A","B","C","D","E","F","G","H","I","J","K","L","M","N","O","P","Q","R","S","T","U","V","W","X","Y","Z">>
LowerChars == <<"a","b","c","d","e","f","g","h","i","j","k","l","m","n","o","p","q","r","s","t","u","v","w","x","y","z">>

Range(s) == { s[i] : i \in DOMAIN s }

\* The first index of character c in s at or after position from; 0 when none.
IndexFrom(s, c, from) ==
  LET hits == { i \in from..Len(s) : s[i] = c }
  IN IF hits = {} THEN 0 ELSE CHOOSE i \in hits : \A j \in hits : i <= j

IndexOf(s, c) == IndexFrom(s, c, 1)

\* The last index of character c in s; 0 when none.
LastIndexOf(s, c) ==
  LET hits == { i \in 1..Len(s) : s[i] = c }
  IN IF hits = {} THEN 0 ELSE CHOOSE i \in hits : \A j \in hits : i >= j

\* String.prototype.startsWith
StartsWith(s, p) == Len(p) <= Len(s) /\ SubSeq(s, 1, Len(p)) = p

\* Whether the text p occurs in s at position i.
OccursAt(s, p, i) == i >= 1 /\ i + Len(p) - 1 <= Len(s) /\ SubSeq(s, i, i + Len(p) - 1) = p

Tail2(s, i) == SubSeq(s, i, Len(s))

ToLowerChar(c) ==
  IF c \in Range(UpperChars)
  THEN LowerChars[CHOOSE i \in DOMAIN UpperChars : UpperChars[i] = c]
  ELSE c

\* String.prototype.toLowerCase
ToLowerCase(s) == [ i \in DOMAIN s |-> ToLowerChar(s[i]) ]

IsDigit(c) == c \in Range(DigitChars)

DigitVal(c) == (CHOOSE i \in DOMAIN HexChars : HexChars[i] = ToLowerChar(c)) - 1

IsHexDigit(c) == ToLowerChar(c) \in Range(HexChars)

RECURSIVE DecStr(_)
\* The decimal text of a natural number.
DecStr(n) == IF n < 10 THEN <<DigitChars[n + 1]>> ELSE DecStr(n \div 10) \o <<DigitChars[(n % 10) + 1]>>

RECURSIVE HexStr(_)
\* The lower-case hexadecimal text of a natural number, no leading zeros.
HexStr(n) == IF n < 16 THEN <<HexChars[n + 1]>> ELSE HexStr(n \div 16) \o <<HexChars[(n % 16) + 1]>>

RECURSIVE DecVal(_)
\* The number a text of decimal digits denotes.
DecVal(s) == IF s = <<>> THEN 0 ELSE 10 * DecVal(SubSeq(s, 1, Len(s) - 1)) + DigitVal(s[Len(s)])

\* ------------------------------------------------------- URL (new URL(u))

BadUrl == [ok |-> FALSE, protocol |-> <<>>, hostname |-> <<>>, port |-> <<>>, host |-> <<>>, origin |-> <<>>]

DefaultPort(scheme) ==
  CASE scheme = <<"h","t","t","p">> -> <<"8","0">>
    [] scheme = <<"h","t","t","p","s">> -> <<"4","4","3">>
    [] scheme = <<"f","t","p">> -> <<"2","1">>
    [] OTHER -> <<>>

RECURSIVE SkipSlashes(_, _)
SkipSlashes(u, i) == IF i <= Len(u) /\ u[i] = "/" THEN SkipSlashes(u, i + 1) ELSE i

\* The end (exclusive) of the authority that starts at i: the next "/", "?" or "#".
AuthorityEnd(u, i) ==
  LET stops == { j \in i..Len(u) : u[j] \in {"/", "?", "#"} }
  IN IF stops = {} THEN Len(u) + 1 ELSE CHOOSE j \in stops : \A k \in stops : j <= k

\* new URL(u) for a URL of a special scheme: scheme ":" slashes host [":" port] rest.
\* The host name is lower-cased and a port equal to the scheme's default is dropped.
ParseUrl(u) ==
  LET ci == IndexOf(u, ":") IN
  IF ci <= 1 \/ \E i \in 1..(ci - 1) : ToLowerChar(u[i]) \notin Range(LowerChars)
  THEN BadUrl
  ELSE
    LET scheme == ToLowerCase(SubSeq(u, 1, ci - 1))
        a0 == SkipSlashes(u, ci + 1)
        a1 == AuthorityEnd(u, a0)
        auth == SubSeq(u, a0, a1 - 1)
        pi == LastIndexOf(auth, ":")
        name == ToLowerCase(IF pi = 0 THEN auth ELSE SubSeq(auth, 1, pi - 1))
        rawPort == IF pi = 0 THEN <<>> ELSE Tail2(auth, pi + 1)
        port == IF rawPort = <<>> \/ DecStr(DecVal(rawPort)) = DefaultPort(scheme) THEN <<>> ELSE DecStr(DecVal(rawPort))
        host == IF port = <<>> THEN name ELSE name \o <<":">> \o port
    IN IF name = <<>> \/ \E i \in DOMAIN rawPort : ~IsDigit(rawPort[i])
       THEN BadUrl
       ELSE [ok |-> TRUE, protocol |-> scheme \o <<":">>, hostname |-> name, port |-> port,
             host |-> host, origin |-> scheme \o <<":","/","/">> \o host]

isAbsoluteHttpUrl(u) ==
  LET x == ParseUrl(u)
  IN x.ok /\ (x.protocol = <<"h","t","t","p",":">> \/ x.protocol = <<"h","t","t","p","s",":">>)


\* ------------------------------------------------- allow-list (lines 55-66)

\* The characters the escaping step of wildcardMatch puts a backslash before:
\* the class [.+?^${}()|[\]\\]. The wildcard "*" is not among them.
EscapedChars == {".", "+", "?", "^", "$", "{", "}", "(", ")", "|", "[", "]", "\\"}

RECURSIVE EscapeRegExp(_)
\* pattern.replace(/[.+?^${}()|[\]\\]/g, "\\$&")
EscapeRegExp(p) ==
  IF p = <<>> THEN <<>>
  ELSE (IF Head(p) \in EscapedChars THEN <<"\\", Head(p)>> ELSE <<Head(p)>>) \o EscapeRegExp(Tail(p))

\* String.prototype.replace(search, by) with a string search: the first occurrence only.
ReplaceFirst(s, search, by) ==
  LET hits == { i \in 1..Len(s) : OccursAt(s, search, i) }
  IN IF hits = {} THEN s
     ELSE LET i == CHOOSE k \in hits : \A j \in hits : k <= j
          IN SubSeq(s, 1, i - 1) \o by \o Tail2(s, i + Len(search))

RegExpSyntaxError == [ok |-> FALSE, atoms |-> <<>>]

RECURSIVE RegExpParse(_, _, _)
\* new RegExp("^" + src + "$"): the atoms between the anchors, or a SyntaxError.
\* An atom is a literal character or "." (any), possibly starred. A "*" with
\* nothing before it (right after "^") or after another "*" is "Nothing to repeat".
RegExpParse(src, i, atoms) ==
  IF i > Len(src) THEN [ok |-> TRUE, atoms |-> atoms]
  ELSE IF src[i] = "\\" THEN
         IF i = Len(src) THEN RegExpSyntaxError
         ELSE RegExpParse(src, i + 2, Append(atoms, [ch |-> src[i + 1], any |-> FALSE, star |-> FALSE]))
  ELSE IF src[i] = "*" THEN
         IF atoms = <<>> \/ atoms[Len(atoms)].star THEN RegExpSyntaxError
         ELSE RegExpParse(src, i + 1, [atoms EXCEPT ![Len(atoms)].star = TRUE])
  ELSE RegExpParse(src, i + 1, Append(atoms, [ch |-> src[i], any |-> src[i] = ".", star |-> FALSE]))

\* Whether an atom matches one character under the "i" flag.
AtomMatches(a, c) == a.any \/ ToLowerChar(a.ch) = ToLowerChar(c)

RECURSIVE RegExpMatch(_, _, _, _)
\* RegExp.prototype.test for an anchored pattern: atoms from i against s from j.
RegExpMatch(atoms, i, s, j) ==
  IF i > Len(atoms) THEN j > Len(s)
  ELSE IF atoms[i].star
       THEN RegExpMatch(atoms, i + 1, s, j)
            \/ (j <= Len(s) /\ AtomMatches(atoms[i], s[j]) /\ RegExpMatch(atoms, i, s, j + 1))
       ELSE j <= Len(s) /\ AtomMatches(atoms[i], s[j]) /\ RegExpMatch(atoms, i + 1, s, j + 1)

\* The regular-expression source wildcardMatch builds from a pattern.
WildcardSource(pattern) == ReplaceFirst(EscapeRegExp(pattern), <<"\\", "*">>, <<".", "*">>)

\* wildcardMatch(host, pattern): threw is a SyntaxError of new RegExp, val the boolean.
wildcardMatch(host, pattern) ==
  IF "*" \notin Range(pattern)
  THEN [threw |-> FALSE, val |-> ToLowerCase(host) = ToLowerCase(pattern)]
  ELSE LET re == RegExpParse(WildcardSource(pattern), 1, <<>>)
       IN IF ~re.ok THEN [threw |-> TRUE, val |-> FALSE]
          ELSE [threw |-> FALSE, val |-> RegExpMatch(re.atoms, 1, host, 1)]

RECURSIVE SomeMatch(_, _, _)
\* Array.prototype.some over the patterns from index i: stops at the first match,
\* and an exception of the callback ends it.
SomeMatch(host, patterns, i) ==
  IF i > Len(patterns) THEN [threw |-> FALSE, val |-> FALSE]
  ELSE LET m == wildcardMatch(host, patterns[i])
       IN IF m.threw \/ m.val THEN m ELSE SomeMatch(host, patterns, i + 1)

\* An allow-list check that lets every host through.
hostAllowed_AllowAll(host, allow) == [threw |-> FALSE, val |-> TRUE]

\* hostAllowed(host) under the allow-list allow.
hostAllowed(host, allow) ==
  IF Len(allow) = 0 THEN [threw |-> FALSE, val |-> TRUE]
  ELSE SomeMatch(host, allow, 1)

\* ------------------------------------------- public-IP check (lines 68-89)

\* An address as DNS holds it: an IPv4 address is its four octets, an IPv6
\* address of the form hi:0:0:0:0:0:0:lo is its first and last 16-bit groups.
IPv4(a, b, c, d) == [fam |-> 4, o |-> <<a, b, c, d>>, hi |-> 0, lo |-> 0]
IPv6(hi, lo) == [fam |-> 6, o |-> <<0, 0, 0, 0>>, hi |-> hi, lo |-> lo]

\* The text dns.lookup reports for an address (a.address): dotted decimal, or
\* the canonical compressed lower-case IPv6 form.
AddressText(a) ==
  IF a.fam = 4
  THEN DecStr(a.o[1]) \o <<".">> \o DecStr(a.o[2]) \o <<".">> \o DecStr(a.o[3]) \o <<".">> \o DecStr(a.o[4])
  ELSE (IF a.hi = 0 THEN <<>> ELSE HexStr(a.hi)) \o <<":", ":">> \o (IF a.lo = 0 THEN <<>> ELSE HexStr(a.lo))

\* net.isIP(ip): 4, 6, or 0 for a text that is no address.
isIP(ip) ==
  IF ip # <<>> /\ \A i \in DOMAIN ip : IsDigit(ip[i]) \/ ip[i] = "."
  THEN (IF Cardinality({ i \in DOMAIN ip : ip[i] = "." }) = 3 THEN 4 ELSE 0)
  ELSE IF ":" \in Range(ip) /\ \A i \in DOMAIN ip : IsHexDigit(ip[i]) \/ ip[i] = ":"
       THEN 6 ELSE 0

\* /^172\.(1[6-9]|2\d|3[0-1])\./.test(ip)
Is172Private(ip) ==
  /\ StartsWith(ip, <<"1", "7", "2", ".">>)
  /\ Len(ip) >= 7
  /\ \/ ip[5] = "1" /\ ip[6] \in {"6", "7", "8", "9"}
     \/ ip[5] = "2" /\ IsDigit(ip[6])
     \/ ip[5] = "3" /\ ip[6] \in {"0", "1"}
  /\ ip[7] = "."

\* The isPrivate expression of validateResolvablePublic, on the address text.
isPrivate(ip) ==
  \/ StartsWith(ip, <<"1", "0", ".">>)
  \/ StartsWith(ip, <<"1", "9", "2", ".", "1", "6", "8", ".">>)
  \/ Is172Private(ip)
  \/ ip = <<"1", "2", "7", ".", "0", ".", "0", ".", "1">>
  \/ ip = <<":", ":", "1">>
  \/ StartsWith(ip, <<"1", "6", "9", ".", "2", "5", "4", ".">>)
  \/ StartsWith(ip, <<"f", "e", "8", "0", ":">>)

\* A DNS answer: an error, or the list of addresses of the host.
DnsError == [err |-> TRUE, addrs |-> <<>>]
DnsAddrs(as) == [err |-> FALSE, addrs |-> as]

\* A guard that lets a failed lookup through.
validateResolvablePublic_FailOpen(deny, answer) ==
  IF ~deny \/ answer.err THEN "ok"
  ELSE IF \E i \in DOMAIN answer.addrs :
            isIP(AddressText(answer.addrs[i])) # 0 /\ isPrivate(AddressText(answer.addrs[i]))
       THEN "private ip blocked"
       ELSE "ok"

\* validateResolvablePublic(host) once dns.lookup has answered: "ok", or the
\* message of the error it throws. With the check disabled DNS is not asked.
validateResolvablePublic(deny, answer) ==
  IF ~deny THEN "ok"
  ELSE IF answer.err THEN "getaddrinfo ENOTFOUND"
  ELSE IF \E i \in DOMAIN answer.addrs :
            isIP(AddressText(answer.addrs[i])) # 0 /\ isPrivate(AddressText(answer.addrs[i]))
       THEN "private ip blocked"
       ELSE "ok"

\* --------------------------------------- target extraction (lines 92-113)

\* The character of a percent-encoded octet below 128, for the octets used here.
CharOfCode(n) ==
  CASE n = 58 -> ":"
    [] n = 47 -> "/"
    [] n = 37 -> "%"
    [] n = 46 -> "."
    [] n = 45 -> "-"
    [] OTHER -> "?"

URIError == [ok |-> FALSE, text |-> <<>>]

RECURSIVE DecodeFrom(_, _, _)
\* decodeURIComponent: every %XY becomes its character; a "%" not followed by two
\* hexadecimal digits, or a lone octet of 128 or more, is a URIError.
DecodeFrom(s, i, acc) ==
  IF i > Len(s) THEN [ok |-> TRUE, text |-> acc]
  ELSE IF s[i] # "%" THEN DecodeFrom(s, i + 1, Append(acc, s[i]))
  ELSE IF i + 2 > Len(s) \/ ~IsHexDigit(s[i + 1]) \/ ~IsHexDigit(s[i + 2]) THEN URIError
  ELSE LET code == 16 * DigitVal(s[i + 1]) + DigitVal(s[i + 2])
       IN IF code >= 128 THEN URIError
          ELSE DecodeFrom(s, i + 3, Append(acc, CharOfCode(code)))

decodeURIComponent(s) == DecodeFrom(s, 1, <<>>)

\* A request: the X-Render-Secret header (NoHeader when absent), the url query
\* parameter (empty when absent, empty or not a string) and the path after
\* "/render/" (empty when the path is "/render" or "/render/").
Request(secret, q, rest) == [secret |-> secret, q |-> q, rest |-> rest]

\* An extraction that takes the path remainder as it is, without decoding it.
extractTargetUrl_NoDecode(req) ==
  IF req.q # <<>> THEN req.q ELSE req.rest

\* extractTargetUrl(req)
extractTargetUrl(req) ==
  IF req.q # <<>> THEN req.q
  ELSE IF req.rest # <<>>
       THEN LET d == decodeURIComponent(req.rest)
            IN IF d.ok THEN d.text ELSE req.rest
       ELSE <<>>


\* -------------------------------------------------- configuration (env)

\* MAX_CACHE_ITEMS and CACHE_TTL_MS (in clock ticks) of the cache under study.
MAX_CACHE_ITEMS == 2
CACHE_TTL_MS == 1

\* The most requests that arrive in one behaviour.
MaxRequests == 2

\* The request slots: the most requests in flight at once.
Slots == {1, 2}

NoHeader == "<absent>"
Undefined == "<undefined>"

T_A == <<"h","t","t","p","s",":","/","/","a",".","e","x","a","m","p","l","e",".","c","o","m","/","p">>
T_APORT == <<"h","t","t","p","s",":","/","/","a",".","e","x","a","m","p","l","e",".","c","o","m",":","8","4","4","3","/","p">>
T_EVIL == <<"h","t","t","p","s",":","/","/","e","v","i","l",".","c","o","m","/","p">>
T_FTP == <<"f","t","p",":","/","/","a",".","c","o","m">>
T_NOT == <<"n","o","t","-","a","-","u","r","l">>
ENC_A == <<"h","t","t","p","s","%","3","A","%","2","F","%","2","F","a",".","e","x","a","m","p","l","e",".","c","o","m","%","2","F","p">>
H_A == <<"a",".","e","x","a","m","p","l","e",".","c","o","m">>
H_EX == <<"e","x","a","m","p","l","e",".","c","o","m">>
H_EVIL == <<"e","v","i","l",".","c","o","m">>
P_WILD == <<"*",".","e","x","a","m","p","l","e",".","c","o","m">>
P_EXACT == <<"A",".","E","x","a","m","p","l","e",".","c","o","m">>
P_MID == <<"a","*",".","e","x","a","m","p","l","e",".","c","o","m">>

\* The values of RENDER_SECRET, ALLOW_HOSTS and DENY_PRIVATE_IPS a process may start with.
Secrets == {"", "s1"}
AllowLists == { <<>>, <<P_WILD>>, <<P_EXACT>> }

\* The requests that may arrive: a secret header, and a target given by the
\* query parameter, by the path, or not at all.
Headers == {NoHeader, "", "s1", "s2"}
TargetForms ==
  { [q |-> T_A, rest |-> <<>>], [q |-> T_APORT, rest |-> <<>>], [q |-> T_EVIL, rest |-> <<>>],
    [q |-> T_FTP, rest |-> <<>>], [q |-> T_NOT, rest |-> <<>>],
    [q |-> <<>>, rest |-> ENC_A], [q |-> <<>>, rest |-> <<>>] }
RequestInputs == { Request(h, f.q, f.rest) : h \in Headers, f \in TargetForms }

\* What page.content() may return: the serialization of a document that has a
\* root element is never empty.
Htmls == {"<html>1</html>", "<html>2</html>"}

PublicAddr == IPv4(93, 184, 216, 34)
PrivateAddr == IPv4(10, 0, 0, 5)
LinkLocalHigh == IPv6(65215, 1)

\* The DNS answers a lookup may get in the request model.
DnsAnswers ==
  { DnsError, DnsAddrs(<<PublicAddr>>), DnsAddrs(<<PrivateAddr>>),
    DnsAddrs(<<PublicAddr, PrivateAddr>>), DnsAddrs(<<LinkLocalHigh>>) }

\* ------------------------------------------------ cache (lines 40-43)

\* The cache is the list of its entries from least to most recently used; an
\* entry's age is the time since it was stored, counted up to CACHE_TTL_MS + 1.
IsStale(e) == e.age > CACHE_TTL_MS

CacheKeys(c) == { c[i].key : i \in DOMAIN c }

Without(c, k) == SelectSeq(c, LAMBDA e : e.key # k)

EntryOf(c, k) == c[CHOOSE i \in DOMAIN c : c[i].key = k]

\* A get that reads a live entry without making it the most recently used.
cacheGet_NoPromote(c, k) ==
  IF k \notin CacheKeys(c) THEN [value |-> Undefined, cache |-> c]
  ELSE IF IsStale(EntryOf(c, k)) THEN [value |-> Undefined, cache |-> Without(c, k)]
  ELSE [value |-> EntryOf(c, k).value, cache |-> c]

\* A get that gives a live entry a new lifetime.
cacheGet_UpdateAge(c, k) ==
  IF k \notin CacheKeys(c) THEN [value |-> Undefined, cache |-> c]
  ELSE IF IsStale(EntryOf(c, k)) THEN [value |-> Undefined, cache |-> Without(c, k)]
  ELSE [value |-> EntryOf(c, k).value, cache |-> Append(Without(c, k), [EntryOf(c, k) EXCEPT !.age = 0])]

\* cache.get(k): a stale entry is deleted and reads as undefined; a live one
\* becomes the most recently used and keeps its age.
cacheGet(c, k) ==
  IF k \notin CacheKeys(c) THEN [value |-> Undefined, cache |-> c]
  ELSE IF IsStale(EntryOf(c, k)) THEN [value |-> Undefined, cache |-> Without(c, k)]
  ELSE [value |-> EntryOf(c, k).value, cache |-> Append(Without(c, k), EntryOf(c, k))]

\* cache.set(k, v): an existing entry is replaced, a new one evicts the least
\* recently used entry of a full cache; the entry is the most recently used, of age 0.
cacheSet(c, k, v) ==
  LET e == [key |-> k, value |-> v, age |-> 0]
  IN IF k \in CacheKeys(c) THEN Append(Without(c, k), e)
     ELSE IF Len(c) >= MAX_CACHE_ITEMS THEN Append(Tail(c), e)
     ELSE Append(c, e)

\* Time passing by one tick, for every entry.
Aged(c) == [ i \in DOMAIN c |-> [c[i] EXCEPT !.age = IF @ > CACHE_TTL_MS THEN @ ELSE @ + 1] ]

\* A getBrowser that tests for a launched browser instead of a stored promise.
getBrowser_CheckSettled(bp) ==
  IF bp # "fulfilled" THEN [promise |-> "pending", launched |-> 1]
  ELSE [promise |-> bp, launched |-> 0]

\* A getBrowser that launches again when the stored launch has failed.
getBrowser_RetryRejected(bp) ==
  IF bp \in {"unset", "rejected"} THEN [promise |-> "pending", launched |-> 1]
  ELSE [promise |-> bp, launched |-> 0]

\* getBrowser(): the stored promise after the call, and whether a launch was started.
getBrowser(bp) ==
  IF bp = "unset" THEN [promise |-> "pending", launched |-> 1]
  ELSE [promise |-> bp, launched |-> 0]

\* A hit test that never takes the cached value.
Truthy_Never(v) == FALSE

\* if (fromCache)
Truthy(v) == v # Undefined /\ v # ""

\* An auth test that only compares the header with the secret.
authorized_HeaderOnly(secret, header) == header = secret

\* The negation of the auth test of line 215: !SECRET || header !== SECRET.
authorized(secret, header) == secret # "" /\ header = secret


\* ------------------------------------------------------------- state

VARIABLES
  SECRET,            \* process.env.RENDER_SECRET
  ALLOW_HOSTS,       \* the parsed allow-list
  DENY_PRIVATE_IPS,  \* the SSRF guard switch
  cache,             \* the LRUCache
  browserPromise,    \* "unset", "pending", "fulfilled" or "rejected"
  launches,          \* how many times puppeteer.launch was called
  req,               \* the request of each slot
  arrived,           \* how many requests have arrived
  recency,           \* the cached targets in the order of their last hit or store
  probe,             \* the input of a guard function under study
  verdict            \* what the guard function answered

vars == <<SECRET, ALLOW_HOSTS, DENY_PRIVATE_IPS, cache, browserPromise, launches, req, arrived, recency, probe, verdict>>
config == <<SECRET, ALLOW_HOSTS, DENY_PRIVATE_IPS>>

NoProbe == [kind |-> "none"]

\* No DNS answer yet, or none asked for.
NoAnswer == [err |-> FALSE, addrs |-> <<>>]

\* A slot before its request: nothing extracted, nothing checked, no page.
\*   pc       where the handler is suspended ("idle" before, "done" after the response)
\*   secret   the X-Render-Secret header of the request
\*   target   targetUrl, once extracted
\*   lookup   the name given to dns.lookup
\*   answer   what dns.lookup answered: kept while it is validated and when it
\*            fails the request, dropped when validateResolvablePublic returns
\*   checks   the checks performed so far, in order
\*   hit      whether cache.get returned the HTML
\*   session  the launch whose promise getBrowser returned (0: not called)
\*   page     "none", "open", "closed", or "closeFailed" when page.close() rejected
\*   intercept whether request interception is on and the handler registered
\*   nav      whether page.goto was called
\*   wait     "timeout" from the moment a wait of this attempt (for the marker
\*            or for readiness) was rejected and the rejection caught, until
\*            the attempt ends; "" otherwise
\*   dom      the document of the page: "none", "loaded" by the navigation,
\*            "based" with the base element set, "static" with the scripts and
\*            the preload links removed
\*   purged   whether cache.get deleted the expired entry of the target
\*   gone     whether the client has disconnected
\*   html     the local html of renderUrl
\*   err      the error in flight through the finally block
\*   status, body, message   the response
Fresh ==
  [pc |-> "idle", secret |-> NoHeader, target |-> <<>>, lookup |-> <<>>, answer |-> NoAnswer,
   checks |-> <<>>, hit |-> FALSE, session |-> 0, page |-> "none", intercept |-> FALSE, nav |-> FALSE,
   wait |-> "", dom |-> "none", purged |-> FALSE, gone |-> FALSE,
   html |-> Undefined, err |-> "", status |-> 0, body |-> "", message |-> ""]

Init ==
  /\ SECRET \in Secrets
  /\ ALLOW_HOSTS \in AllowLists
  /\ DENY_PRIVATE_IPS \in BOOLEAN
  /\ cache = <<>>
  /\ browserPromise = "unset"
  /\ launches = 0
  /\ req = [r \in Slots |-> Fresh]
  /\ arrived = 0
  /\ recency = <<>>
  /\ probe = NoProbe
  /\ verdict = "none"

\* res.status(code).send(...)
Respond(rec, code, body, message) ==
  [rec EXCEPT !.pc = "done", !.status = code, !.body = body, !.message = message]

\* The recency order restricted to the targets the cache still holds.
Kept(order, c) == SelectSeq(order, LAMBDA k : k \in CacheKeys(c))

\* The recency order after target k was hit or stored.
Touched(order, k, c) == Kept(Append(SelectSeq(order, LAMBDA x : x # k), k), c)

\* A renderUrl that takes the cached HTML and still asks for the browser.
RenderStart_HitAcquires(r, rec) ==
  LET got == cacheGet(cache, rec.target)
  IN /\ cache' = got.cache
     /\ browserPromise' = getBrowser(browserPromise).promise
     /\ launches' = launches + getBrowser(browserPromise).launched
     /\ req' = [req EXCEPT ![r] = [rec EXCEPT !.pc = "browser", !.checks = @ \o <<"cache", "browser">>,
                                                !.hit = Truthy(got.value), !.session = launches']]
     /\ recency' = Kept(recency, got.cache)

\* renderUrl(targetUrl) up to its first suspension (lines 134-137): a hit
\* returns the cached HTML, which the handler sends; a miss asks for the browser.
RenderStart(r, rec) ==
  LET got == cacheGet(cache, rec.target)
      rec1 == [rec EXCEPT !.checks = Append(@, "cache"),
                          !.purged = rec.target \in CacheKeys(cache) \ CacheKeys(got.cache)]
  IN /\ cache' = got.cache
     /\ IF Truthy(got.value)
        THEN /\ req' = [req EXCEPT ![r] = [Respond(rec1, 200, got.value, "") EXCEPT !.hit = TRUE]]
             /\ recency' = Touched(recency, rec.target, got.cache)
             /\ UNCHANGED <<browserPromise, launches>>
        ELSE /\ browserPromise' = getBrowser(browserPromise).promise
             /\ launches' = launches + getBrowser(browserPromise).launched
             /\ req' = [req EXCEPT ![r] = [rec1 EXCEPT !.pc = "browser", !.checks = Append(@, "browser"),
                                                        !.session = launches']]
             /\ recency' = Kept(recency, got.cache)

\* The handler of GET /render (lines 213-230) from the arrival of a request to
\* its first suspension: auth, extraction, validation, allow-list, and then
\* either the DNS lookup or, with the guard off, the start of renderUrl.
Arrive(r) ==
  /\ req[r].pc \in {"idle", "done"}
  /\ arrived < MaxRequests
  /\ arrived' = arrived + 1
  /\ \E in \in RequestInputs :
       LET rec0 == [Fresh EXCEPT !.secret = in.secret, !.checks = <<"auth">>]
           targetUrl == extractTargetUrl(in)
           rec1 == [rec0 EXCEPT !.target = targetUrl, !.checks = <<"auth", "url">>]
           host == ParseUrl(targetUrl).host
           allowed == hostAllowed(host, ALLOW_HOSTS)
           rec2 == [rec1 EXCEPT !.checks = <<"auth", "url", "allow">>]
       IN IF ~authorized(SECRET, in.secret)
          THEN /\ req' = [req EXCEPT ![r] = Respond(rec0, 401, "unauthorized", "")]
               /\ UNCHANGED <<cache, browserPromise, launches, recency>>
          ELSE IF ~isAbsoluteHttpUrl(targetUrl)
          THEN /\ req' = [req EXCEPT ![r] = Respond(rec1, 400, "bad request", "")]
               /\ UNCHANGED <<cache, browserPromise, launches, recency>>
          ELSE IF allowed.threw
          THEN /\ req' = [req EXCEPT ![r] = Respond(rec2, 500, "Render error", "Invalid regular expression")]
               /\ UNCHANGED <<cache, browserPromise, launches, recency>>
          ELSE IF ~allowed.val
          THEN /\ req' = [req EXCEPT ![r] = Respond(rec2, 403, "forbidden", "")]
               /\ UNCHANGED <<cache, browserPromise, launches, recency>>
          ELSE IF DENY_PRIVATE_IPS
          THEN /\ req' = [req EXCEPT ![r] = [rec2 EXCEPT !.pc = "dns", !.lookup = host, !.checks = Append(@, "dns")]]
               /\ UNCHANGED <<cache, browserPromise, launches, recency>>
          ELSE RenderStart(r, rec2)
  /\ UNCHANGED <<config, probe, verdict>>

\* The callback of dns.lookup is called with an error or the addresses (line 71).
DnsAnswer(r) ==
  /\ req[r].pc = "dns"
  /\ \E answer \in DnsAnswers :
       req' = [req EXCEPT ![r] = [@ EXCEPT !.pc = "validate", !.answer = answer]]
  /\ UNCHANGED <<config, cache, browserPromise, launches, arrived, recency, probe, verdict>>

\* validateResolvablePublic resumes with the answer (lines 72-89): it throws,
\* and the handler answers 500, or it returns and renderUrl starts (line 230).
DnsDone(r) ==
  /\ req[r].pc = "validate"
  /\ LET v == validateResolvablePublic(DENY_PRIVATE_IPS, req[r].answer)
         rec == [req[r] EXCEPT !.answer = NoAnswer]
     IN IF v # "ok"
        THEN /\ req' = [req EXCEPT ![r] = Respond(req[r], 500, "Render error", v)]
             /\ UNCHANGED <<cache, browserPromise, launches, recency>>
        ELSE RenderStart(r, rec)
  /\ UNCHANGED <<config, arrived, probe, verdict>>

\* puppeteer.launch settles (lines 119-127).
LaunchSettle ==
  /\ browserPromise = "pending"
  /\ browserPromise' \in {"fulfilled", "rejected"}
  /\ UNCHANGED <<config, cache, launches, req, arrived, recency, probe, verdict>>

\* Only the request of slot r moves, to rec.
Only(r, rec) ==
  /\ req' = [req EXCEPT ![r] = rec]
  /\ UNCHANGED <<config, cache, browserPromise, launches, arrived, recency, probe, verdict>>

\* The request fails outside the try block: the handler's catch answers 500.
Throw(r, message) == Only(r, Respond(req[r], 500, "Render error", message))

\* The request fails inside the try block: the finally block closes the page first.
ThrowInTry(r, message) == Only(r, [req[r] EXCEPT !.pc = "close", !.err = message, !.wait = ""])

\* await getBrowser() resumes (line 137) and browser.newPage() is called (line 138).
BrowserDone(r) ==
  /\ req[r].pc = "browser"
  /\ \/ browserPromise = "fulfilled" /\ Only(r, [req[r] EXCEPT !.pc = "newPage"])
     \/ browserPromise = "rejected" /\ Throw(r, "launch failed")

\* browser.newPage() settles (line 138) and page.setUserAgent is called (line 140).
NewPageDone(r) ==
  /\ req[r].pc = "newPage"
  /\ \/ Only(r, [req[r] EXCEPT !.pc = "setUserAgent", !.page = "open"])
     \/ Throw(r, "newPage failed")

\* page.setUserAgent settles (line 140) and page.setRequestInterception is called (line 142).
SetUserAgentDone(r) ==
  /\ req[r].pc = "setUserAgent"
  /\ \/ Only(r, [req[r] EXCEPT !.pc = "setRequestInterception"])
     \/ Throw(r, "setUserAgent failed")

\* page.setRequestInterception settles (line 142); the handler is registered
\* (lines 143-149), the try block is entered and page.goto is called (line 154).
SetRequestInterceptionDone(r) ==
  /\ req[r].pc = "setRequestInterception"
  /\ \/ Only(r, [req[r] EXCEPT !.pc = "goto", !.intercept = TRUE, !.nav = TRUE])
     \/ Throw(r, "setRequestInterception failed")

\* page.goto settles (line 154): loaded, or a navigation error or timeout.
GotoDone(r) ==
  /\ req[r].pc = "goto"
  /\ \/ Only(r, [req[r] EXCEPT !.pc = "waitForSelector", !.dom = "loaded"])
     \/ ThrowInTry(r, "Navigation timeout")

\* A marker wait whose timeout is not caught.
WaitForSelectorDone_Fatal(r) ==
  /\ req[r].pc = "waitForSelector"
  /\ \/ Only(r, [req[r] EXCEPT !.pc = "nudge"])
     \/ ThrowInTry(r, "Waiting for selector failed")

\* page.waitForSelector settles (line 157): the marker was found, or the wait
\* was rejected (a timeout) and .catch(() => {}) took the rejection; either way
\* the scroll nudge is evaluated next (line 160).
WaitForSelectorDone(r) ==
  /\ req[r].pc = "waitForSelector"
  /\ \E outcome \in {"found", "timeout"} :
       Only(r, [req[r] EXCEPT !.pc = "nudge", !.wait = IF outcome = "timeout" THEN "timeout" ELSE @])

\* The scroll nudge settles (lines 160-164).
NudgeDone(r) ==
  /\ req[r].pc = "nudge"
  /\ \/ Only(r, [req[r] EXCEPT !.pc = "waitForFunction"])
     \/ ThrowInTry(r, "evaluate failed")

\* page.waitForFunction settles (lines 167-174): the page is ready, or the
\* wait was rejected (a timeout) and .catch(() => {}) took the rejection;
\* either way the settle delay starts (line 177).
WaitForFunctionDone(r) ==
  /\ req[r].pc = "waitForFunction"
  /\ \E outcome \in {"ready", "timeout"} :
       Only(r, [req[r] EXCEPT !.pc = "settle", !.wait = IF outcome = "timeout" THEN "timeout" ELSE @])

\* The settle delay ends (line 177) and the base element is injected (lines 180-189).
SettleDone(r) ==
  /\ req[r].pc = "settle"
  /\ Only(r, [req[r] EXCEPT !.pc = "base"])

\* The base injection settles (lines 181-189).
BaseDone(r) ==
  /\ req[r].pc = "base"
  /\ \/ Only(r, [req[r] EXCEPT !.pc = "strip", !.dom = "based"])
     \/ ThrowInTry(r, "evaluate failed")

\* The script stripping settles (lines 192-195) and page.content is called (line 197).
StripDone(r) ==
  /\ req[r].pc = "strip"
  /\ \/ Only(r, [req[r] EXCEPT !.pc = "content", !.dom = "static"])
     \/ ThrowInTry(r, "evaluate failed")

\* A render that stores what it has when page.content() fails.
ContentDone_StoresOnFailure(r) ==
  /\ req[r].pc = "content"
  /\ \E h \in Htmls :
       /\ cache' = cacheSet(cache, req[r].target, h)
       /\ recency' = Touched(recency, req[r].target, cache')
       /\ \/ req' = [req EXCEPT ![r] = [@ EXCEPT !.pc = "close", !.html = h]]
          \/ req' = [req EXCEPT ![r] = [@ EXCEPT !.pc = "close", !.err = "content failed", !.wait = ""]]
       /\ UNCHANGED <<config, browserPromise, launches, arrived, probe, verdict>>

\* page.content settles (line 197) with the serialization of the document;
\* the HTML is stored (line 198) and the finally block calls page.close (line 200).
ContentDone(r) ==
  /\ req[r].pc = "content"
  /\ \/ \E h \in Htmls :
          /\ cache' = cacheSet(cache, req[r].target, h)
          /\ recency' = Touched(recency, req[r].target, cache')
          /\ req' = [req EXCEPT ![r] = [@ EXCEPT !.pc = "close", !.html = h]]
          /\ UNCHANGED <<config, browserPromise, launches, arrived, probe, verdict>>
     \/ ThrowInTry(r, "content failed")

\* A finally block that lets the rejection of page.close() out.
CloseDone_Propagates(r) ==
  /\ req[r].pc = "close"
  /\ \/ Only(r, LET rec == [req[r] EXCEPT !.page = "closed", !.wait = ""]
                IN IF rec.err = "" THEN Respond(rec, 200, rec.html, "")
                   ELSE Respond(rec, 500, "Render error", rec.err))
     \/ Only(r, Respond([req[r] EXCEPT !.page = "closeFailed", !.wait = ""], 500, "Render error", "close failed"))

\* page.close settles (line 200), its failure ignored; renderUrl returns the
\* HTML or rethrows, and the handler answers (lines 233-241).
CloseDone(r) ==
  /\ req[r].pc = "close"
  /\ \E closed \in {"closed", "closeFailed"} :
       LET rec == [req[r] EXCEPT !.page = closed, !.wait = ""]
       IN Only(r, IF rec.err = ""
                  THEN Respond(rec, 200, rec.html, "")
                  ELSE Respond(rec, 500, "Render error", rec.err))

\* One tick of the clock: every entry is older.
Tick ==
  /\ cache' = Aged(cache)
  /\ cache' # cache
  /\ UNCHANGED <<config, browserPromise, launches, req, arrived, recency, probe, verdict>>

Next ==
  \/ \E r \in Slots : Arrive(r)
  \/ \E r \in Slots : DnsAnswer(r)
  \/ \E r \in Slots : DnsDone(r)
  \/ LaunchSettle
  \/ \E r \in Slots : BrowserDone(r)
  \/ \E r \in Slots : NewPageDone(r)
  \/ \E r \in Slots : SetUserAgentDone(r)
  \/ \E r \in Slots : SetRequestInterceptionDone(r)
  \/ \E r \in Slots : GotoDone(r)
  \/ \E r \in Slots : WaitForSelectorDone(r)
  \/ \E r \in Slots : NudgeDone(r)
  \/ \E r \in Slots : WaitForFunctionDone(r)
  \/ \E r \in Slots : SettleDone(r)
  \/ \E r \in Slots : BaseDone(r)
  \/ \E r \in Slots : StripDone(r)
  \/ \E r \in Slots : ContentDone(r)
  \/ \E r \in Slots : CloseDone(r)
  \/ Tick

Spec == Init /\ [][Next]_vars


\* ------------------------------------- requests whose clients may leave

\* The client of a request in flight disconnects. The handler (lines 213-243)
\* has no listener for it and reads the state of the connection nowhere.
Disconnect(r) ==
  /\ req[r].pc \notin {"idle", "done"}
  /\ ~req[r].gone
  /\ Only(r, [req[r] EXCEPT !.gone = TRUE])

InitClient ==
  /\ SECRET = "s1"
  /\ ALLOW_HOSTS = <<>>
  /\ DENY_PRIVATE_IPS \in BOOLEAN
  /\ cache = <<>>
  /\ browserPromise = "unset"
  /\ launches = 0
  /\ req = [r \in Slots |-> Fresh]
  /\ arrived = 0
  /\ recency = <<>>
  /\ probe = NoProbe
  /\ verdict = "none"

NextClient ==
  \/ Next
  \/ \E r \in Slots : Disconnect(r)

SpecClient == InitClient /\ [][NextClient]_vars

\* ------------------------------------------ the guard functions alone

\* The bound on the octets and groups of the addresses under study is the pool below.
GuardAddrs ==
  { IPv4(10, 0, 0, 5), IPv4(172, 16, 0, 1), IPv4(172, 31, 255, 1), IPv4(172, 32, 0, 1),
    IPv4(172, 15, 0, 1), IPv4(192, 168, 1, 1), IPv4(192, 169, 1, 1), IPv4(127, 0, 0, 1),
    IPv4(169, 254, 1, 1), IPv4(100, 0, 0, 1), IPv4(93, 184, 216, 34),
    IPv6(0, 1), IPv6(65152, 1), IPv6(65215, 1), IPv6(8193, 1) }

GuardAnswers ==
  {DnsError} \cup { DnsAddrs(<<a>>) : a \in GuardAddrs }
             \cup { DnsAddrs(<<a, b>>) : a \in GuardAddrs, b \in GuardAddrs }

GuardHosts == { H_A, H_EX, H_EVIL, ParseUrl(T_APORT).host, <<"a", "a", ".", "e", "x", "a", "m", "p", "l", "e", ".", "c", "o", "m">> }
GuardAllowLists == { <<>>, <<P_WILD>>, <<P_EXACT>>, <<P_MID>>, <<H_EVIL, P_WILD>> }

AllowProbes == { [kind |-> "allow", host |-> h, allow |-> a] : h \in GuardHosts, a \in GuardAllowLists }
DnsProbes == { [kind |-> "dns", answer |-> a] : a \in GuardAnswers }

InitGuard ==
  /\ SECRET = "s1"
  /\ ALLOW_HOSTS = <<>>
  /\ DENY_PRIVATE_IPS = TRUE
  /\ cache = <<>>
  /\ browserPromise = "unset"
  /\ launches = 0
  /\ req = [r \in Slots |-> Fresh]
  /\ arrived = 0
  /\ recency = <<>>
  /\ probe \in AllowProbes \cup DnsProbes
  /\ verdict = "none"

\* hostAllowed(host) is called: "true", "false", or "throw" when it throws.
ApplyHostAllowed ==
  /\ probe.kind = "allow"
  /\ verdict = "none"
  /\ LET a == hostAllowed(probe.host, probe.allow)
     IN verdict' = IF a.threw THEN "throw" ELSE IF a.val THEN "true" ELSE "false"
  /\ UNCHANGED <<config, cache, browserPromise, launches, req, arrived, recency, probe>>

\* validateResolvablePublic(host) is called and DNS gives the probed answer:
\* "ok", or the message of the error thrown.
ApplyValidate ==
  /\ probe.kind = "dns"
  /\ verdict = "none"
  /\ verdict' = validateResolvablePublic(DENY_PRIVATE_IPS, probe.answer)
  /\ UNCHANGED <<config, cache, browserPromise, launches, req, arrived, recency, probe>>

NextGuard == ApplyHostAllowed \/ ApplyValidate

SpecGuard == InitGuard /\ [][NextGuard]_vars

\* ------------------------------------------------------ the cache alone

\* The most cache operations in one behaviour of the cache alone.
MaxCacheOps == 5

CacheTargets == {T_A, T_APORT, T_EVIL}

InitCache ==
  /\ SECRET = "s1"
  /\ ALLOW_HOSTS = <<>>
  /\ DENY_PRIVATE_IPS = FALSE
  /\ cache = <<>>
  /\ browserPromise = "unset"
  /\ launches = 0
  /\ req = [r \in Slots |-> Fresh]
  /\ arrived = 0
  /\ recency = <<>>
  /\ probe = [kind |-> "cache", op |-> "none", key |-> <<>>, evicted |-> <<>>, evictedAge |-> 0]
  /\ verdict = "none"

\* The entries of c whose key c2 no longer holds.
Dropped(c, c2) == SelectSeq(c, LAMBDA e : e.key \notin CacheKeys(c2))

\* cache.get(targetUrl) as renderUrl calls it (line 134); verdict is what it returned.
CacheLookup ==
  /\ arrived < MaxCacheOps
  /\ arrived' = arrived + 1
  /\ \E k \in CacheTargets :
       LET got == cacheGet(cache, k)
       IN /\ cache' = got.cache
          /\ verdict' = got.value
          /\ recency' = IF Truthy(got.value) THEN Touched(recency, k, got.cache) ELSE Kept(recency, got.cache)
          /\ probe' = [probe EXCEPT !.op = "get", !.key = k, !.evicted = <<>>, !.evictedAge = 0]
  /\ UNCHANGED <<config, browserPromise, launches, req>>

\* cache.set(targetUrl, html) as renderUrl calls it (line 198).
CacheStore ==
  /\ arrived < MaxCacheOps
  /\ arrived' = arrived + 1
  /\ \E k \in CacheTargets, h \in Htmls :
       LET gone == Dropped(cache, cacheSet(cache, k, h))
       IN /\ cache' = cacheSet(cache, k, h)
          /\ recency' = Touched(recency, k, cache')
          /\ probe' = [probe EXCEPT !.op = "set", !.key = k,
                                    !.evicted = IF gone = <<>> THEN <<>> ELSE gone[1].key,
                                    !.evictedAge = IF gone = <<>> THEN 0 ELSE gone[1].age]
  /\ UNCHANGED <<config, browserPromise, launches, req, verdict>>

NextCache == CacheLookup \/ CacheStore \/ Tick

SpecCache == InitCache /\ [][NextCache]_vars


\* ------------------------------------- the interception of one page

\* BLOCKED_RESOURCE_TYPES (lines 31-33): the default and two sets from the environment.
DefaultBlocked == {"image", "media", "eventsource", "websocket", "manifest"}
BlockedSets == {DefaultBlocked, {"image", "font"}, {"script"}}

\* What req.resourceType() may answer.
ResourceTypes ==
  {"document", "stylesheet", "script", "image", "media", "font", "xhr", "eventsource", "websocket", "manifest"}

\* The most requests one page issues in one behaviour.
MaxSubRequests == 3

\* A handler without the return of line 146: a blocked request is aborted and then continued.
onRequest_NoReturn(type, blocked) ==
  [aborts |-> IF type \in blocked THEN 1 ELSE 0, continues |-> 1]

\* The request handler (lines 143-149): how many times it calls req.abort() and
\* req.continue() for a request of the given resource type.
onRequest(type, blocked) ==
  IF type \in blocked THEN [aborts |-> 1, continues |-> 0]
  ELSE [aborts |-> 0, continues |-> 1]

NoSubRequest == [type |-> "", intercepted |-> FALSE, aborts |-> 0, continues |-> 0]

\* A page right after page.setUserAgent: setRequestInterception(true) is called (line 142).
InitIntercept ==
  /\ SECRET = "s1"
  /\ ALLOW_HOSTS = <<>>
  /\ DENY_PRIVATE_IPS = TRUE
  /\ cache = <<>>
  /\ browserPromise = "fulfilled"
  /\ launches = 1
  /\ req = [r \in Slots |-> Fresh]
  /\ arrived = 0
  /\ recency = <<>>
  /\ probe \in { [kind |-> "page", blocked |-> b, step |-> "setRequestInterception",
                   interception |-> FALSE, handlers |-> 0, issued |-> 0] : b \in BlockedSets }
  /\ verdict = NoSubRequest

\* page.setRequestInterception(true) settles (line 142): interception is on, the
\* handler is registered (line 143) and page.goto is called (line 154); or it
\* is rejected and renderUrl throws with no navigation.
PageInterceptionDone ==
  /\ probe.kind = "page" /\ probe.step = "setRequestInterception"
  /\ \/ probe' = [probe EXCEPT !.step = "goto", !.interception = TRUE, !.handlers = 1]
     \/ probe' = [probe EXCEPT !.step = "failed"]
  /\ UNCHANGED <<config, cache, browserPromise, launches, req, arrived, recency, verdict>>

\* The navigating or loaded page issues a request: the document first, then its
\* sub-resources. With interception on the request is paused and given to every
\* registered handler; with interception off it goes out as it is.
PageRequest ==
  /\ probe.kind = "page" /\ probe.step \in {"goto", "loaded"}
  /\ probe.issued < MaxSubRequests
  /\ probe' = [probe EXCEPT !.issued = @ + 1]
  /\ \E t \in IF probe.issued = 0 THEN {"document"} ELSE ResourceTypes \ {"document"} :
       verdict' = IF probe.interception
                  THEN [type |-> t, intercepted |-> TRUE,
                        aborts |-> probe.handlers * onRequest(t, probe.blocked).aborts,
                        continues |-> probe.handlers * onRequest(t, probe.blocked).continues]
                  ELSE [type |-> t, intercepted |-> FALSE, aborts |-> 0, continues |-> 0]
  /\ UNCHANGED <<config, cache, browserPromise, launches, req, arrived, recency>>

\* page.goto settles (line 154); the page goes on loading while renderUrl waits.
PageLoaded ==
  /\ probe.kind = "page" /\ probe.step = "goto" /\ probe.issued > 0
  /\ probe' = [probe EXCEPT !.step = "loaded"]
  /\ UNCHANGED <<config, cache, browserPromise, launches, req, arrived, recency, verdict>>

\* page.close() (line 200): the page issues no more requests.
PageClosed ==
  /\ probe.kind = "page" /\ probe.step \in {"goto", "loaded"}
  /\ probe' = [probe EXCEPT !.step = "closed"]
  /\ UNCHANGED <<config, cache, browserPromise, launches, req, arrived, recency, verdict>>

NextIntercept == PageInterceptionDone \/ PageRequest \/ PageLoaded \/ PageClosed

SpecIntercept == InitIntercept /\ [][NextIntercept]_vars


\* ------------------------------------------- target extraction alone

T_ACOM == <<"h","t","t","p","s",":","/","/","a",".","c","o","m","/","p">>
ENC_ACOM == <<"h","t","t","p","s","%","3","A","%","2","F","%","2","F","a",".","c","o","m","%","2","F","p">>
\* Path remainders that decodeURIComponent rejects: one that is a URL as it is, one that is not.
RAW_PCT == <<"h","t","t","p","s",":","/","/","a",".","c","o","m","/","1","0","0","%">>
RAW_BAD == <<"%","z","z">>

ExtractQueries == {<<>>, T_ACOM, T_A, T_NOT, T_FTP}
ExtractRests == {<<>>, ENC_ACOM, ENC_A, T_ACOM, RAW_PCT, RAW_BAD}
ExtractInputs == { Request(h, q, rest) : h \in {"s1", "s2"}, q \in ExtractQueries, rest \in ExtractRests }

InitExtract ==
  /\ SECRET \in Secrets
  /\ ALLOW_HOSTS = <<>>
  /\ DENY_PRIVATE_IPS = TRUE
  /\ cache = <<>>
  /\ browserPromise = "unset"
  /\ launches = 0
  /\ req = [r \in Slots |-> Fresh]
  /\ arrived = 0
  /\ recency = <<>>
  /\ probe \in { [kind |-> "extract", in |-> in, applied |-> FALSE] : in \in ExtractInputs }
  /\ verdict = [status |-> 0, target |-> <<>>]

\* The handler up to the validation of the target (lines 215-223): the status
\* it answers (0 when it goes on to the policy checks) and the target extracted.
ApplyExtract ==
  /\ probe.kind = "extract"
  /\ ~probe.applied
  /\ probe' = [probe EXCEPT !.applied = TRUE]
  /\ LET targetUrl == extractTargetUrl(probe.in)
     IN verdict' = IF ~authorized(SECRET, probe.in.secret) THEN [status |-> 401, target |-> <<>>]
                   ELSE IF ~isAbsoluteHttpUrl(targetUrl) THEN [status |-> 400, target |-> targetUrl]
                   ELSE [status |-> 0, target |-> targetUrl]
  /\ UNCHANGED <<config, cache, browserPromise, launches, req, arrived, recency>>

NextExtract == ApplyExtract

SpecExtract == InitExtract /\ [][NextExtract]_vars


\* ================================================================ claims

InFlight(q) == q.pc \notin {"idle", "done"}

Did(q, check) == check \in Range(q.checks)

\* The allow-list as documented: no pattern allows every host; a pattern
\* without "*" allows the host equal to it, case ignored; a pattern with "*"
\* allows the hosts that have its text before the "*" at the start and its text
\* after the "*" at the end.
DocumentedMatch(host, pattern) ==
  LET h == ToLowerCase(host)
      p == ToLowerCase(pattern)
      star == IndexOf(p, "*")
  IN IF star = 0 THEN h = p
     ELSE /\ Len(h) >= Len(p) - 1
          /\ SubSeq(h, 1, star - 1) = SubSeq(p, 1, star - 1)
          /\ Tail2(h, Len(h) - (Len(p) - star) + 1) = Tail2(p, star + 1)

DocumentedAllowed(host, allow) ==
  Len(allow) = 0 \/ \E i \in DOMAIN allow : DocumentedMatch(host, allow[i])

\* The denylisted ranges as the specification lists them, on the address itself:
\* 10.0.0.0/8, 172.16.0.0/12, 192.168.0.0/16, 127.0.0.1, 169.254.0.0/16, ::1, fe80::/10.
InDenylistedRange(a) ==
  IF a.fam = 4
  THEN \/ a.o[1] = 10
       \/ a.o[1] = 172 /\ a.o[2] \in 16..31
       \/ a.o[1] = 192 /\ a.o[2] = 168
       \/ a.o = <<127, 0, 0, 1>>
       \/ a.o[1] = 169 /\ a.o[2] = 254
  ELSE \/ a.hi = 0 /\ a.lo = 1
       \/ a.hi \in 65152..65215

\* The private ranges of RFC 1918: 10.0.0.0/8, 172.16.0.0/12, 192.168.0.0/16.
InPrivateRange(a) ==
  /\ a.fam = 4
  /\ \/ a.o[1] = 10
     \/ a.o[1] = 172 /\ a.o[2] \in 16..31
     \/ a.o[1] = 192 /\ a.o[2] = 168

\* The lookup failed, or every address it gave is a private one.
FailedOrOnlyPrivate(answer) ==
  \/ answer.err
  \/ answer.addrs # <<>> /\ \A i \in DOMAIN answer.addrs : InPrivateRange(answer.addrs[i])

\* C1: every answered request was decided by the first failing check, in the
\* order auth (401), URL validation (400), allow-list (403), public-IP check
\* (500), and no check after the failing one was performed.
C1_FirstFailingCheckDecides ==
  \A r \in Slots :
    LET q == req[r] IN
    q.pc = "done" =>
      IF ~(SECRET # "" /\ q.secret = SECRET)
      THEN q.status = 401 /\ q.checks = <<"auth">>
      ELSE IF ~isAbsoluteHttpUrl(q.target)
      THEN q.status = 400 /\ q.checks = <<"auth", "url">>
      ELSE IF ~DocumentedAllowed(ParseUrl(q.target).host, ALLOW_HOSTS)
      THEN q.status = 403 /\ q.checks = <<"auth", "url", "allow">>
      ELSE /\ q.status \in {200, 500}
           /\ q.answer # NoAnswer => q.status = 500 /\ q.checks = <<"auth", "url", "allow", "dns">>

\* C2: a request is answered 401 exactly when the secret is empty or the header
\* differs from it, and a rejected request has extracted no target, consulted no
\* cache and used no browser.
C2_AuthFailClosed ==
  \A r \in Slots :
    LET q == req[r] IN
    q.pc # "idle" =>
      IF SECRET # "" /\ q.secret = SECRET
      THEN q.status # 401
      ELSE /\ q.pc = "done" /\ q.status = 401
           /\ q.checks = <<"auth">> /\ q.target = <<>>
           /\ ~q.hit /\ q.session = 0 /\ q.page = "none" /\ ~q.nav

\* C2 witness: with the secret empty, a request with an empty header was answered 401.
C2_Witness ==
  \E r \in Slots : SECRET = "" /\ req[r].pc = "done" /\ req[r].secret = "" /\ req[r].status = 401

\* C3: with the private-IP check on, when the lookup of a request fails or
\* gives only private addresses, the request ends right there in a 500, with no
\* page, no navigation, no browser and no change of the cache, whatever is cached.
C3_NoRenderBehindPrivateHost ==
  [][\A r \in Slots :
       (req[r].pc = "validate" /\ FailedOrOnlyPrivate(req[r].answer) /\ req'[r] # req[r]) =>
         /\ req'[r].pc = "done" /\ req'[r].status = 500
         /\ req'[r].page = "none" /\ ~req'[r].nav /\ req'[r].session = 0 /\ ~req'[r].hit
         /\ cache' = cache /\ launches' = launches /\ browserPromise' = browserPromise]_vars

\* C3 witness: a request whose host resolved only to 10.0.0.5 was answered 500
\* without a page while its target is cached and live.
C3_Witness ==
  \E r \in Slots :
    /\ req[r].pc = "done" /\ req[r].answer = DnsAddrs(<<PrivateAddr>>)
    /\ req[r].status = 500 /\ req[r].message = "private ip blocked" /\ req[r].page = "none"
    /\ req[r].target \in CacheKeys(cache) /\ ~IsStale(EntryOf(cache, req[r].target))

\* C4: validateResolvablePublic fails exactly for the answers that hold an
\* address in a denylisted range (10.0.0.0/8, 172.16.0.0/12, 192.168.0.0/16,
\* 127.0.0.1, 169.254.0.0/16, ::1, fe80::/10), whatever else they hold.
C4_DenylistedRangesRejected ==
  (probe.kind = "dns" /\ verdict # "none" /\ ~probe.answer.err) =>
    (verdict # "ok" <=> \E i \in DOMAIN probe.answer.addrs : InDenylistedRange(probe.answer.addrs[i]))

\* C5: hostAllowed returns a boolean and never throws; it is true for every
\* host under the empty allow-list, and under {"*.example.com"} it is true for
\* a.example.com and false for example.com and evil.com.
C5_AllowedTable ==
  (probe.kind = "allow" /\ verdict # "none") =>
    /\ verdict \in {"true", "false"}
    /\ probe.allow = <<>> => verdict = "true"
    /\ (probe.allow = <<P_WILD>> /\ probe.host = H_A) => verdict = "true"
    /\ (probe.allow = <<P_WILD>> /\ probe.host \in {H_EX, H_EVIL}) => verdict = "false"

\* Two targets that differ at most in the port of the URL.
SameButPort(t1, t2) ==
  /\ ParseUrl(t1).ok /\ ParseUrl(t2).ok
  /\ ParseUrl(t1).protocol = ParseUrl(t2).protocol
  /\ ParseUrl(t1).hostname = ParseUrl(t2).hostname

\* C6: two requests whose targets differ only in the port get the same
\* allow-list decision and have the same name resolved.
C6_PortIrrelevant ==
  \A r1, r2 \in Slots :
    (Did(req[r1], "allow") /\ Did(req[r2], "allow") /\ SameButPort(req[r1].target, req[r2].target)) =>
      /\ (req[r1].status = 403) = (req[r2].status = 403)
      /\ (Did(req[r1], "dns") /\ Did(req[r2], "dns")) => req[r1].lookup = req[r2].lookup

\* C7: at most one launch is ever started, it is started by the first call of
\* getBrowser, and every caller gets the promise of that launch.
C7_SingleLaunch ==
  /\ launches <= 1
  /\ launches = 1 <=> browserPromise # "unset"
  /\ \A r \in Slots : Did(req[r], "browser") => launches = 1 /\ req[r].session = 1

\* C7 witness: two first requests overlap, both waiting for the one pending launch.
C7_Witness ==
  /\ browserPromise = "pending"
  /\ launches = 1
  /\ \A r \in Slots : req[r].pc = "browser" /\ req[r].session = 1

\* C8: when a render attempt has ended, the page it created is not left open.
C8_PageClosedOnEveryExit ==
  \A r \in Slots : req[r].pc = "done" => req[r].page # "open"

\* C9 as claimed: no two requests for one target both navigate while both are
\* in flight, that is, a request arriving during the render of its target does
\* not navigate again.
C9_OneNavigationAnyTiming ==
  \A r1, r2 \in Slots :
    (r1 # r2 /\ req[r1].target = req[r2].target /\ InFlight(req[r1]) /\ InFlight(req[r2]))
      => ~(req[r1].nav /\ req[r2].nav)

\* The step in which the request of slot r looks its target up in the cache.
CacheLookupStep(r) == ~Did(req[r], "cache") /\ Did(req'[r], "cache")

\* C9 as amended: a request that looks its target up while the cache holds a
\* live entry for it is answered 200 with exactly the cached HTML, creates no
\* page, starts no navigation and no launch, and leaves the cached HTML as it is.
C9_HitServesCachedHtml ==
  [][\A r \in Slots :
       LET t == req'[r].target IN
       (CacheLookupStep(r) /\ t \in CacheKeys(cache) /\ ~IsStale(EntryOf(cache, t))) =>
         /\ req'[r].pc = "done" /\ req'[r].status = 200
         /\ req'[r].body = EntryOf(cache, t).value
         /\ req'[r].page = "none" /\ ~req'[r].nav /\ req'[r].session = 0
         /\ launches' = launches
         /\ t \in CacheKeys(cache') /\ EntryOf(cache', t) = EntryOf(cache, t)]_vars

\* C9 witness: a render of a target navigated once and answered its HTML, and a
\* later request for the same target was answered the same HTML from the cache.
C9_Witness ==
  \E r1, r2 \in Slots :
    /\ r1 # r2 /\ req[r1].target = req[r2].target
    /\ req[r1].pc = "done" /\ req[r1].status = 200 /\ req[r1].nav
    /\ req[r2].pc = "done" /\ req[r2].status = 200 /\ req[r2].hit /\ ~req[r2].nav
    /\ req[r1].body = req[r2].body

\* C10: the cache never holds more than MAX_CACHE_ITEMS entries, and a store of
\* a new target into a full cache removes exactly the entry whose last hit or
\* store is the oldest; every other entry stays.
C10_LruEviction ==
  [][/\ Len(cache') <= MAX_CACHE_ITEMS
     /\ \A k \in CacheKeys(cache') \ CacheKeys(cache) :
          Len(cache) = MAX_CACHE_ITEMS => CacheKeys(cache) \ CacheKeys(cache') = {Head(recency)}]_vars

\* C10 witness: the cache is full after a store that evicted an entry younger
\* than the one that stayed: the older entry was read after the younger was stored.
C10_Witness ==
  /\ probe.kind = "cache" /\ probe.op = "set" /\ probe.evicted # <<>>
  /\ Len(cache) = MAX_CACHE_ITEMS
  /\ cache[1].age > probe.evictedAge

\* C11: for an authorized request, a non-empty url query parameter is the
\* target whatever the path holds; without it the target is the path remainder
\* percent-decoded, or the remainder as it is when it cannot be decoded, so
\* ?url=https://a.com/p and /render/https%3A%2F%2Fa.com%2Fp both give
\* https://a.com/p, which passes validation; with neither the target is empty
\* and the answer is 400.
C11_ExtractionTable ==
  (probe.kind = "extract" /\ probe.applied /\ SECRET = "s1" /\ probe.in.secret = "s1") =>
    LET q == probe.in.q
        rest == probe.in.rest
    IN /\ q # <<>> => verdict.target = q
       /\ (q = <<>> /\ rest = ENC_ACOM) => verdict.target = T_ACOM
       /\ (q = <<>> /\ rest = ENC_A) => verdict.target = T_A
       /\ (q = <<>> /\ rest = T_ACOM) => verdict.target = T_ACOM
       /\ (q = <<>> /\ rest \in {RAW_PCT, RAW_BAD}) => verdict.target = rest
       /\ (q = <<>> /\ rest = <<>>) => verdict.target = <<>> /\ verdict.status = 400
       /\ verdict.target \in {T_ACOM, T_A, RAW_PCT} => verdict.status = 0
       /\ verdict.target \in {RAW_BAD, T_NOT, T_FTP} => verdict.status = 400

\* C11 witness: the encoded path form, with no query parameter, was extracted
\* to https://a.com/p and passed validation.
C11_Witness ==
  /\ probe.kind = "extract" /\ probe.applied
  /\ probe.in.q = <<>> /\ probe.in.rest = ENC_ACOM
  /\ verdict.target = T_ACOM /\ verdict.status = 0

\* Check a was performed before check b in the request q.
Before(q, a, b) ==
  \E i, j \in DOMAIN q.checks : i < j /\ q.checks[i] = a /\ q.checks[j] = b

\* C12 as claimed: the cache lookup precedes the policy checks, and a request
\* answered from the cache has performed no allow-list check and no DNS resolution.
C12_CacheBeforePolicy ==
  \A r \in Slots :
    LET q == req[r] IN
    /\ (Did(q, "allow") /\ Did(q, "cache")) => Before(q, "cache", "allow")
    /\ q.hit => ~Did(q, "allow") /\ ~Did(q, "dns")

\* C12 as amended: the policy checks (the allow-list and, with the private-IP
\* check on, the DNS resolution) precede the cache lookup, which precedes the
\* acquisition of the browser, the page, the navigation, the normalization and
\* the store, in this order; a cache hit goes from the lookup straight to the
\* 200 response with no browser, no page and no navigation.
C12_PolicyBeforeCache ==
  \A r \in Slots :
    LET q == req[r] IN
    /\ Did(q, "cache") => Before(q, "allow", "cache")
    /\ (Did(q, "cache") /\ DENY_PRIVATE_IPS) => Before(q, "dns", "cache")
    /\ Did(q, "browser") => Before(q, "cache", "browser")
    /\ q.session # 0 <=> Did(q, "browser")
    /\ q.page # "none" => Did(q, "browser")
    /\ q.nav => q.page # "none" /\ q.intercept
    /\ q.dom # "none" => q.nav
    /\ q.html # Undefined => q.dom = "static"
    /\ q.hit => /\ q.pc = "done" /\ q.status = 200
                /\ q.checks[Len(q.checks)] = "cache"
                /\ q.session = 0 /\ q.page = "none" /\ ~q.nav

\* C12 witness: a request passed the allow-list and the DNS resolution and was
\* then answered from the cache.
C12_Witness ==
  \E r \in Slots :
    /\ req[r].hit /\ req[r].pc = "done" /\ req[r].status = 200
    /\ req[r].checks = <<"auth", "url", "allow", "dns", "cache">>

\* C13: once the navigation of a page is started, interception is on and the
\* one handler is registered, so every request the page issues is intercepted;
\* the handler resolves it exactly once: it aborts it when its resource type is
\* in the block-set and continues it otherwise.
C13_EveryRequestFilteredOnce ==
  probe.kind = "page" =>
    /\ probe.step \in {"goto", "loaded", "closed"} => probe.interception /\ probe.handlers = 1
    /\ probe.step = "failed" => probe.issued = 0
    /\ verdict.type # "" =>
         /\ verdict.intercepted
         /\ verdict.aborts + verdict.continues = 1
         /\ verdict.aborts = 1 <=> verdict.type \in probe.blocked

\* C13 witness: under the default block-set, after the document, an image
\* request was intercepted and aborted, not continued.
C13_Witness ==
  /\ probe.kind = "page" /\ probe.blocked = DefaultBlocked /\ probe.issued > 1
  /\ verdict = [type |-> "image", intercepted |-> TRUE, aborts |-> 1, continues |-> 0]

\* C14: whether the marker wait or the readiness wait ends by a timeout or
\* not, the attempt goes on without an error: nudge, readiness wait, settle
\* delay, normalization; after a timeout the serialization of the normalized
\* document is stored under the target and then answered with 200. A failed
\* navigation ends in the finally block and a 500 with the navigation error,
\* the page closed and nothing stored.
C14_WaitTimeoutsNotFatal ==
  [][\A r \in Slots :
       LET q == req[r]
           q2 == req'[r]
       IN /\ (q.pc = "waitForSelector" /\ q2 # q) => q2.pc = "nudge" /\ q2.err = ""
          /\ (q.pc = "waitForFunction" /\ q2 # q) => q2.pc = "settle" /\ q2.err = ""
          /\ (q.pc = "settle" /\ q2 # q) => q2.pc = "base" /\ q2.err = ""
          /\ (q.pc = "content" /\ q.wait = "timeout" /\ q2 # q /\ q2.err = "") =>
               /\ q.dom = "static" /\ q2.html \in Htmls
               /\ q.target \in CacheKeys(cache') /\ EntryOf(cache', q.target).value = q2.html
          /\ (q.pc = "close" /\ q.wait = "timeout" /\ q2 # q) =>
               /\ q2.pc = "done" /\ q2.status = 200 /\ q2.body = q.html
               /\ q2.page \in {"closed", "closeFailed"}
               /\ cache' = cache
          /\ (q.pc = "goto" /\ q2 # q /\ q2.err # "") =>
               q2.pc = "close" /\ q2.html = Undefined /\ cache' = cache
          /\ (q.pc = "close" /\ q.dom = "none" /\ q2 # q) =>
               /\ q2.pc = "done" /\ q2.status = 500 /\ q2.message = q.err
               /\ q2.page \in {"closed", "closeFailed"} /\ q2.html = Undefined
               /\ cache' = cache]_vars

\* C14 witness: a wait of the attempt timed out, and the attempt has normalized
\* the document, stored its HTML under the target and is closing the page.
C14_Witness ==
  \E r \in Slots :
    /\ req[r].pc = "close" /\ req[r].wait = "timeout" /\ req[r].err = ""
    /\ req[r].dom = "static"
    /\ req[r].target \in CacheKeys(cache) /\ EntryOf(cache, req[r].target).value = req[r].html

\* C15: the response is sent only when page.close() has settled, and it is the
\* same whether the close succeeded or failed: the HTML with 200 when the render
\* succeeded, the render's own error with 500 when it failed; the settling of
\* the close leaves the cache as it is.
C15_CloseFailureSuppressed ==
  [][\A r \in Slots :
       LET q == req[r]
           q2 == req'[r]
       IN /\ q.pc = "close" => q.status = 0 /\ q.page = "open"
          /\ (q.pc = "close" /\ q2 # q) =>
               /\ q2.pc = "done" /\ q2.page \in {"closed", "closeFailed"}
               /\ q.err = "" => q2.status = 200 /\ q2.body = q.html /\ q.html \in Htmls
               /\ q.err # "" => q2.status = 500 /\ q2.message = q.err
               /\ q2.html = q.html
               /\ cache' = cache]_vars

\* C15 witness: page.close() failed for two attempts: one was answered its HTML,
\* which is cached, the other its navigation error.
C15_Witness ==
  \E r1, r2 \in Slots :
    /\ req[r1].pc = "done" /\ req[r1].page = "closeFailed" /\ req[r1].status = 200
    /\ req[r1].target \in CacheKeys(cache) /\ EntryOf(cache, req[r1].target).value = req[r1].body
    /\ req[r2].pc = "done" /\ req[r2].page = "closeFailed" /\ req[r2].status = 500
    /\ req[r2].message = "Navigation timeout"

\* C16: a request whose client disconnected while it was in flight is never cut
\* short: when it has ended, it was answered by the render or by a failed check,
\* the page it created is closed, and after a successful render the HTML it
\* was answered is the one the render stored under the target.
C16_DisconnectDoesNotCancel ==
  \A r \in Slots :
    LET q == req[r] IN
    (q.gone /\ q.pc = "done") =>
      /\ q.status \in {200, 500}
      /\ q.page # "none" => q.page \in {"closed", "closeFailed"}
      /\ (q.status = 200 /\ ~q.hit) => q.html \in Htmls /\ q.body = q.html /\ q.dom = "static"

\* C17: an entry gets younger only by being stored again; a hit makes the
\* entry the most recently used and leaves its age as it is; a lookup of an
\* entry older than the TTL is a miss even when that entry is the most recently
\* used; a store of a new target into a full cache removes the least recently
\* used entry, expired or not, and no other.
C17_TtlIndependentOfRecency ==
  [][/\ \A k \in CacheKeys(cache) \cap CacheKeys(cache') :
          EntryOf(cache', k).age < EntryOf(cache, k).age => probe'.op = "set" /\ probe'.key = k
     /\ (probe'.op = "get" /\ arrived' # arrived /\ Truthy(verdict')) =>
          /\ probe'.key \in CacheKeys(cache) /\ ~IsStale(EntryOf(cache, probe'.key))
          /\ cache'[Len(cache')] = EntryOf(cache, probe'.key)
     /\ (probe'.op = "get" /\ arrived' # arrived /\ probe'.key \in CacheKeys(cache)
          /\ EntryOf(cache, probe'.key).age > CACHE_TTL_MS) => verdict' = Undefined
     /\ (probe'.op = "set" /\ arrived' # arrived /\ probe'.key \notin CacheKeys(cache)
          /\ Len(cache) = MAX_CACHE_ITEMS) =>
          /\ CacheKeys(cache) \ CacheKeys(cache') = {Head(recency)}
          /\ probe'.evictedAge = EntryOf(cache, Head(recency)).age]_vars

\* C17 witness: the entry just read is the most recently used and still at the
\* end of its lifetime, older than the entry read before it.
C17_Witness ==
  /\ probe.kind = "cache" /\ probe.op = "get" /\ Truthy(verdict)
  /\ Len(cache) = MAX_CACHE_ITEMS
  /\ cache[Len(cache)].key = probe.key
  /\ cache[Len(cache)].age = CACHE_TTL_MS
  /\ cache[1].age < CACHE_TTL_MS

\* The key k holds in c2 a value that was stored in the step from c to c2.
StoredIn(c, c2, k) ==
  /\ k \in CacheKeys(c2)
  /\ \/ k \notin CacheKeys(c)
     \/ EntryOf(c2, k).value # EntryOf(c, k).value
     \/ EntryOf(c2, k).age < EntryOf(c, k).age

\* The step in which the request of slot r stores a value under key k: its
\* page navigated to k, its document is normalized, page.content() has given
\* the HTML and the attempt has no error.
StoreStep(r, k) ==
  /\ req[r].pc = "content" /\ req'[r].pc = "close" /\ req'[r].err = ""
  /\ req[r].target = k /\ req[r].nav /\ req[r].dom = "static"
  /\ req'[r].html \in Htmls /\ EntryOf(cache', k).value = req'[r].html

\* C18 as claimed: every value is stored by the last step of a successful
\* render of its target, after normalization, and a request answered with a
\* render error has left the cache as it was.
C18_FailedAttemptLeavesCache ==
  [][/\ \A k \in CacheKeys(cache') : StoredIn(cache, cache', k) => \E r \in Slots : StoreStep(r, k)
     /\ \A r \in Slots :
          (req'[r].pc = "done" /\ req'[r].status = 500) => req'[r].html = Undefined /\ ~req'[r].purged]_vars

\* C18 as amended: every value is stored by the last step of a successful
\* render of its target, after normalization; a failing attempt stores
\* nothing: no step of an attempt that has an error changes the cache, a
\* request answered with a render error has stored no HTML, and the one change
\* an attempt makes before its store is that of its lookup, which drops the
\* expired entry of its own target and nothing else.
C18_StoreOnlyAfterSuccess ==
  [][/\ \A k \in CacheKeys(cache') : StoredIn(cache, cache', k) => \E r \in Slots : StoreStep(r, k)
     /\ \A r \in Slots :
          /\ (req'[r].pc = "done" /\ req'[r].status = 500) => req'[r].html = Undefined
          /\ (req'[r] # req[r] /\ req'[r].err # "") => cache' = cache
          /\ (CacheLookupStep(r) /\ ~req'[r].hit) =>
               /\ Without(cache', req'[r].target) = Without(cache, req'[r].target)
               /\ req'[r].target \notin CacheKeys(cache')
               /\ req'[r].purged <=>
                    (req'[r].target \in CacheKeys(cache) /\ IsStale(EntryOf(cache, req'[r].target)))]_vars

\* C18 witness: an attempt whose lookup dropped the expired entry of its target
\* failed with a render error and stored nothing: the target is cached no more.
C18_Witness ==
  \E r \in Slots :
    /\ req[r].pc = "done" /\ req[r].status = 500 /\ req[r].purged
    /\ req[r].html = Undefined /\ req[r].page # "none"
    /\ req[r].target \notin CacheKeys(cache)

\* C19: a request is answered from the cache only after it has passed the
\* policy checks in force at its own time: its host is allowed, and, with the
\* private-IP check on, its name was resolved for this request, the resolution
\* did not fail and gave no private address; a request whose resolution fails
\* or gives a private address while its target is cached is answered 500, and
\* no request answered with an error status gets cached HTML as its body.
C19_NoHitPastPolicy ==
  [][\A r \in Slots :
       LET q == req[r]
           q2 == req'[r]
       IN /\ (~q.hit /\ q2.hit) =>
               /\ q2.body = EntryOf(cache, q2.target).value
               /\ Before(q2, "allow", "cache")
               /\ DocumentedAllowed(ParseUrl(q2.target).hostname, ALLOW_HOSTS)
               /\ DENY_PRIVATE_IPS =>
                    /\ Before(q2, "dns", "cache")
                    /\ q.pc = "validate" /\ ~q.answer.err /\ q.answer.addrs # <<>>
                    /\ \A i \in DOMAIN q.answer.addrs : ~InPrivateRange(q.answer.addrs[i])
          /\ (q.pc = "validate" /\ q2 # q /\ q.target \in CacheKeys(cache)
              /\ (q.answer.err \/ \E i \in DOMAIN q.answer.addrs : InPrivateRange(q.answer.addrs[i]))) =>
               q2.pc = "done" /\ q2.status = 500 /\ ~q2.hit /\ q2.body \notin Htmls
          /\ q2.status \in {400, 401, 403, 500} => ~q2.hit /\ q2.body \notin Htmls]_vars

\* C19 witness: a target is cached and live, and a request for it whose host
\* resolved to a public and a private address was answered 500, not the cached HTML.
C19_Witness ==
  \E r \in Slots :
    /\ req[r].pc = "done" /\ req[r].answer = DnsAddrs(<<PublicAddr, PrivateAddr>>)
    /\ req[r].status = 500 /\ req[r].body \notin Htmls /\ ~Did(req[r], "cache")
    /\ req[r].target \in CacheKeys(cache) /\ ~IsStale(EntryOf(cache, req[r].target))

\* C20: a failed launch is final: the launch that failed is the only one ever
\* started, every request that has asked for the browser and has ended was
\* answered 500 with the launch error and created no page, and no request was
\* answered with the launch error under any other state of the stored promise.
\* The cache is then empty, since nothing was ever rendered.
C20_FailedLaunchIsFinal ==
  /\ \A r \in Slots :
       req[r].message = "launch failed" =>
         browserPromise = "rejected" /\ launches = 1 /\ req[r].status = 500
  /\ browserPromise = "rejected" =>
       /\ launches = 1
       /\ cache = <<>>
       /\ \A r \in Slots :
            /\ ~req[r].hit
            /\ req[r].page = "none" /\ ~req[r].nav
            /\ (req[r].pc = "done" /\ Did(req[r], "browser")) =>
                 req[r].status = 500 /\ req[r].message = "launch failed"

\* C20 witness: the one launch failed and two requests were answered its error.
C20_Witness ==
  /\ browserPromise = "rejected" /\ launches = 1 /\ arrived = MaxRequests
  /\ \A r \in Slots :
       req[r].pc = "done" /\ req[r].status = 500 /\ req[r].message = "launch failed"

=============================================================================
